---------------------------- MODULE Spec2Model ----------------------------
(* A model of the two HTTP services of VoTune-AI:                          *)
(*   src/1.py             GET /playlist       (get_playlist)               *)
(*   src/backend/main.py  POST /analyze-audio (analyze_audio)              *)
(* Spec models one /playlist request from arrival to response; SpecAudio   *)
(* models one /analyze-audio request.                                       *)
EXTENDS Integers, Sequences, FiniteSets, TLC

VARIABLES
    pc,                 \* position of get_playlist
    args,               \* request.args of the /playlist request
    query,              \* local `query`
    params,             \* local `params`, the query sent to the search API
    data,               \* local `data`, the decoded upstream body
    songs,              \* local `songs`
    idx,                \* number of elements of `songs` the for loop has taken
    filtered_playlist,  \* local `filtered_playlist`
    seen_track_ids,     \* local `seen_track_ids`
    accepted,           \* history: indices of the candidates the loop accepted
    response,           \* what the handler returned (or the error it raised)
    apc,                \* position of analyze_audio
    upload,             \* the uploaded file: its size in bytes and its filename
    pos,                \* bytes of the upload read so far (the stream's position)
    file_size,          \* local `file_size`
    contents,           \* len(contents): the bytes buffered in local `contents`
    tmp_file,           \* the temporary file on disk: "none", "exists", "removed"
    tmp_path,           \* local `tmp_path`: "unbound" or "bound"
    text,               \* local `text`, "" before transcription
    calls,              \* history: the collaborators the handler has called
    failure,            \* history: the collaborator call that failed, or "none"
    pending,            \* the return value or exception on its way out of the try
    result              \* what the handler returned or raised

pvars == <<pc, args, query, params, data, songs, idx, filtered_playlist,
           seen_track_ids, accepted, response>>

avars == <<apc, upload, pos, file_size, contents, tmp_file, tmp_path, text,
           calls, failure, pending, result>>

vars == <<pvars, avars>>

-----------------------------------------------------------------------------
(* Bounds of the model.                                                     *)

\* longest candidate list the upstream returns in the model
MaxSongs == 6

-----------------------------------------------------------------------------
(* Program constants of src/1.py.                                           *)

TARGET_SONGS == 5

DEFAULT_QUERY == "lofi"

SEARCH_LIMIT == 20

-----------------------------------------------------------------------------
(* Decoded JSON values. Every value is a record [t, v]: t is the JSON type *)
(* and v the payload. A string's payload is its sequence of characters, an *)
(* object's payload a function from its keys, an array's a sequence.       *)

Null == [t |-> "null", v |-> 0]

Num(n) == [t |-> "num", v |-> n]

Str(chars) == [t |-> "str", v |-> chars]

Arr(items) == [t |-> "arr", v |-> items]

Obj(fields) == [t |-> "obj", v |-> fields]

\* Python's None, as dict.get returns it for a missing key and as JSON null decodes
None == Null

\* the empty dict literal {}
EmptyDict == Obj([k \in {} |-> Null])

\* the characters of the str literal 'data'
DATA_CHARS == <<"d", "a", "t", "a">>

\* Truthy with the test `is not None` in place of truthiness
Truthy_NotNone(x) == x.t # "null"

\* Python truthiness of a decoded JSON value
Truthy(x) ==
    CASE x.t = "null" -> FALSE
      [] x.t = "num"  -> x.v # 0
      [] x.t = "str"  -> Len(x.v) > 0
      [] x.t = "arr"  -> Len(x.v) > 0
      [] x.t = "obj"  -> DOMAIN x.v # {}

\* s[i..i+Len(sub)-1] = sub for some i: str.__contains__
IsSubstring(sub, s) ==
    \E i \in 0..(Len(s) - Len(sub)) :
        \A j \in 1..Len(sub) : s[i + j] = sub[j]

\* `'data' in x` raises TypeError: x is not a container
InRaises(x) == x.t \in {"null", "num"}

\* `'data' in x` for a dict (a key), a list (an element) or a str (a substring)
DataIn(x) ==
    CASE x.t = "obj" -> "data" \in DOMAIN x.v
      [] x.t = "arr" -> \E i \in 1..Len(x.v) : x.v[i] = Str(DATA_CHARS)
      [] x.t = "str" -> IsSubstring(DATA_CHARS, x.v)
      [] OTHER       -> FALSE

\* x['data'] raises TypeError: only a dict can be indexed by a str
SubscriptRaises(x) == x.t # "obj"

\* d.get(key, default) on a dict
DictGet(d, key, default) ==
    IF key \in DOMAIN d.v THEN d.v[key] ELSE default

\* x.get raises AttributeError: x is not a dict
GetRaises(x) == x.t # "obj"

\* hash(x) raises TypeError: lists and dicts are unhashable
Unhashable(x) == x.t \in {"arr", "obj"}


-----------------------------------------------------------------------------
(* Inputs of a /playlist request.                                           *)

\* most candidates of one list that are not a fresh playable track
MaxOdd == 2

NoArgs == [k \in {} |-> ""]

\* request.args: q absent, q present and empty, q given
RequestArgs == {NoArgs, [q |-> ""], [q |-> "rock"]}

Digit(k) == <<"0", "1", "2", "3", "4", "5", "6", "7", "8", "9">>[k + 1]

Title(k) == Str(<<"T", Digit(k)>>)

Url(k) == Str(<<"u", Digit(k)>>)

Artist(k) == Obj([name |-> Str(<<"A", Digit(k)>>)])

\* a playable track with an id of its own
Track(k) ==
    Obj([id |-> Num(k), title |-> Title(k), artist |-> Artist(k), preview |-> Url(k)])

\* the candidates that can stand at position k and are not Track(k)
OddCandidates(k) ==
    { Obj([id |-> Num(1), title |-> Title(k), preview |-> Url(k)]),
      Obj([id |-> Num(1), title |-> Title(k), artist |-> EmptyDict, preview |-> Null]),
      Obj([title |-> Title(k), artist |-> Artist(k), preview |-> Url(k)]),
      Obj([id |-> Num(k), title |-> Title(k), artist |-> Artist(k), preview |-> Str(<<>>)]),
      EmptyDict,
      Obj([id |-> Num(k), title |-> Title(k), artist |-> Null, preview |-> Url(k)]),
      Obj([id |-> Arr(<<>>), preview |-> Url(k)]) }

\* the candidate lists of length n with exactly o candidates that are not Track(k)
RECURSIVE SongLists(_, _)
SongLists(n, o) ==
    IF n = 0 THEN (IF o = 0 THEN {<<>>} ELSE {})
    ELSE {Append(s, Track(n)) : s \in SongLists(n - 1, o)}
         \cup (IF o = 0 THEN {}
               ELSE {Append(s, c) : s \in SongLists(n - 1, o - 1),
                                    c \in OddCandidates(n)})

CandidateLists ==
    UNION {SongLists(n, o) : n \in 0..MaxSongs, o \in 0..MaxOdd}

\* decoded bodies without a usable 'data' list
OtherBodies ==
    { Null, Num(7), Str(<<"o", "k">>), Str(<<"n", "o">> \o DATA_CHARS),
      Arr(<<>>), Arr(<<Str(DATA_CHARS)>>),
      EmptyDict, Obj([error |-> Str(<<"x">>)]),
      Obj([data |-> Null]), Obj([data |-> Obj([total |-> Num(0)])]) }

\* what the search API call can produce: an exception of requests, or a body
UpstreamReplies ==
    {[ok |-> FALSE, body |-> Null]}
    \cup {[ok |-> TRUE, body |-> b] : b \in OtherBodies}
    \cup {[ok |-> TRUE, body |-> Obj([data |-> Arr(s)])] : s \in CandidateLists}

-----------------------------------------------------------------------------
(* get_playlist, src/1.py.                                                  *)

NoResponse == [status |-> 0, body |-> Null]

\* jsonify({"error": ..., "message": ...}), status
ErrorResponse(status, error, message) ==
    [status |-> status, body |-> [error |-> error, message |-> message]]

\* an exception no handler catches: the framework answers 500
Unhandled(exc) == [status |-> 500, body |-> [raised |-> exc]]

\* the locals of get_playlist before it runs
PlaylistLocals ==
    /\ query = ""
    /\ params = [q |-> "", limit |-> 0]
    /\ data = Null
    /\ songs = <<>>
    /\ idx = 0
    /\ filtered_playlist = <<>>
    /\ seen_track_ids = {}
    /\ accepted = <<>>
    /\ response = NoResponse

\* a /playlist request arrives
PlaylistRequest ==
    /\ pc = "start"
    /\ args \in RequestArgs
    /\ PlaylistLocals

\* no /playlist request
PlaylistIdle ==
    /\ pc = "idle"
    /\ args = NoArgs
    /\ PlaylistLocals

\* ArgsGet as `request.args.get('q') or DEFAULT_QUERY`
ArgsGet_OrDefault(a) ==
    IF "q" \notin DOMAIN a \/ a.q = "" THEN DEFAULT_QUERY ELSE a.q

\* request.args.get('q', DEFAULT_QUERY)
ArgsGet(a) == IF "q" \in DOMAIN a THEN a.q ELSE DEFAULT_QUERY

\* lines 29-39: read q, build params
PrepareRequest ==
    /\ pc = "start"
    /\ query' = ArgsGet(args)
    /\ params' = [q |-> ArgsGet(args), limit |-> SEARCH_LIMIT]
    /\ pc' = "call"
    /\ UNCHANGED <<avars, args, data, songs, idx, filtered_playlist, seen_track_ids,
                   accepted, response>>

\* lines 41-54: the call raises a RequestException, answered 503
CallFails ==
    /\ pc = "call"
    /\ \E r \in UpstreamReplies :
        /\ ~r.ok
        /\ response' = ErrorResponse(503, "External API Error", <<"unreachable">>)
    /\ pc' = "done"
    /\ UNCHANGED <<avars, args, query, params, data, songs, idx, filtered_playlist,
                   seen_track_ids, accepted>>

\* lines 43-46: the call succeeds and the body decodes
CallSucceeds ==
    /\ pc = "call"
    /\ \E r \in UpstreamReplies :
        /\ r.ok
        /\ data' = r.body
    /\ pc' = "check"
    /\ UNCHANGED <<avars, args, query, params, songs, idx, filtered_playlist,
                   seen_track_ids, accepted, response>>

\* line 60 raises TypeError
CheckRaises(x) == InRaises(x) \/ (DataIn(x) /\ SubscriptRaises(x))

\* line 60: 'data' not in data or not isinstance(data['data'], list)
Malformed(x) == ~DataIn(x) \/ x.v["data"].t # "arr"

\* lines 60-69: the shape check of the body
CheckData ==
    /\ pc = "check"
    /\ IF CheckRaises(data)
       THEN /\ response' = Unhandled("TypeError")
            /\ pc' = "done"
            /\ UNCHANGED <<songs>>
       ELSE IF Malformed(data)
       THEN /\ response' = ErrorResponse(404, "No Songs Found", <<"unexpected", query>>)
            /\ pc' = "done"
            /\ UNCHANGED <<songs>>
       ELSE /\ songs' = data.v["data"].v
            /\ pc' = IF Len(data.v["data"].v) = 0 THEN "after" ELSE "loop"
            /\ UNCHANGED <<response>>
    /\ UNCHANGED <<avars, args, query, params, data, idx, filtered_playlist,
                   seen_track_ids, accepted>>

\* lines 73-79 raise on this song: a .get on a non-dict, or an unhashable id
SongRaises(song, seen) ==
    \/ GetRaises(song)
    \/ GetRaises(DictGet(song, "artist", EmptyDict))
    \/ /\ Truthy(DictGet(song, "preview", None))
       /\ Unhashable(DictGet(song, "id", None))

\* line 79: preview_url and track_id not in seen_track_ids
Accepts(song, seen) ==
    /\ Truthy(DictGet(song, "preview", None))
    /\ DictGet(song, "id", None) \notin seen

\* TrackInfo with the artist object in place of its name
TrackInfo_ArtistObject(song) ==
    [title      |-> DictGet(song, "title", None),
     artist     |-> DictGet(song, "artist", EmptyDict),
     preview_url |-> DictGet(song, "preview", None)]

\* lines 82-86: track_info
TrackInfo(song) ==
    [title      |-> DictGet(song, "title", None),
     artist     |-> DictGet(DictGet(song, "artist", EmptyDict), "name", None),
     preview_url |-> DictGet(song, "preview", None)]

\* Remember without the add
Remember_Nothing(seen, track_id) == seen

\* line 89: seen_track_ids.add(track_id)
Remember(seen, track_id) == seen \cup {track_id}

\* TargetReached with > in place of >=
TargetReached_Late(playlist) == Len(playlist) > TARGET_SONGS

\* line 92: len(filtered_playlist) >= TARGET_SONGS
TargetReached(playlist) == Len(playlist) >= TARGET_SONGS

\* lines 71-93: one iteration of the for loop
FilterStep ==
    /\ pc = "loop"
    /\ idx < Len(songs)
    /\ ~SongRaises(songs[idx + 1], seen_track_ids)
    /\ idx' = idx + 1
    /\ IF Accepts(songs[idx + 1], seen_track_ids)
       THEN /\ filtered_playlist' = Append(filtered_playlist, TrackInfo(songs[idx + 1]))
            /\ seen_track_ids' = Remember(seen_track_ids, DictGet(songs[idx + 1], "id", None))
            /\ accepted' = Append(accepted, idx + 1)
            /\ pc' = IF TargetReached(filtered_playlist') \/ idx + 1 = Len(songs)
                     THEN "after" ELSE "loop"
       ELSE /\ pc' = IF idx + 1 = Len(songs) THEN "after" ELSE "loop"
            /\ UNCHANGED <<filtered_playlist, seen_track_ids, accepted>>
    /\ UNCHANGED <<avars, args, query, params, data, songs, response>>

\* lines 73-79: the iteration raises, nothing catches it
FilterRaises ==
    /\ pc = "loop"
    /\ idx < Len(songs)
    /\ SongRaises(songs[idx + 1], seen_track_ids)
    /\ idx' = idx + 1
    /\ response' = Unhandled(IF Unhashable(DictGet(songs[idx + 1], "id", None))
                             THEN "TypeError" ELSE "AttributeError")
    /\ pc' = "done"
    /\ UNCHANGED <<avars, args, query, params, data, songs, filtered_playlist,
                   seen_track_ids, accepted>>

\* NoneAccepted as "fewer than the target"
NoneAccepted_TooFew(playlist) == Len(playlist) < TARGET_SONGS

\* line 96: not filtered_playlist
NoneAccepted(playlist) == Len(playlist) = 0

\* lines 96-104: the answer after the loop
Respond ==
    /\ pc = "after"
    /\ response' = IF NoneAccepted(filtered_playlist)
                   THEN ErrorResponse(404, "No Songs Found", <<"no preview", query>>)
                   ELSE [status |-> 200, body |-> filtered_playlist]
    /\ pc' = "done"
    /\ UNCHANGED <<avars, args, query, params, data, songs, idx, filtered_playlist,
                   seen_track_ids, accepted>>

PlaylistNext ==
    \/ PrepareRequest
    \/ CallFails
    \/ CallSucceeds
    \/ CheckData
    \/ FilterStep
    \/ FilterRaises
    \/ Respond

-----------------------------------------------------------------------------
(* analyze_audio, src/backend/main.py.                                      *)

\* line 43
MAX_FILE_SIZE == 10 * 1024 * 1024

\* line 48: the size asked of each file.read
CHUNK_SIZE == 8192

\* how far around the cap, in bytes and in chunks, the upload sizes go
MaxOver == 1

\* the sizes of the uploads of the model
UploadSizes ==
    {0, 1, CHUNK_SIZE, CHUNK_SIZE + 1}
    \cup {MAX_FILE_SIZE + d : d \in (0 - MaxOver)..MaxOver}
    \cup {MAX_FILE_SIZE + k * CHUNK_SIZE + 1 : k \in 1..MaxOver}

\* a.wav, A.MP3, b.M4a, c.txt, wav
Filenames ==
    { <<"a", ".", "w", "a", "v">>, <<"A", ".", "M", "P", "3">>,
      <<"b", ".", "M", "4", "a">>, <<"c", ".", "t", "x", "t">>,
      <<"w", "a", "v">> }

\* the text the recognizer returns
RECOGNIZED == "i feel great"

\* outputs of emotion_model(text)[0]: scores in ten-thousandths
ClassifierOutputs ==
    { <<[label |-> "joy", score |-> 4004], [label |-> "sadness", score |-> 5996]>>,
      <<[label |-> "joy", score |-> 5000], [label |-> "sadness", score |-> 5000]>>,
      <<[label |-> "anger", score |-> 9999]>> }

UPPERCASE ==
    <<"A", "B", "C", "D", "E", "F", "G", "H", "I", "J", "K", "L", "M",
      "N", "O", "P", "Q", "R", "S", "T", "U", "V", "W", "X", "Y", "Z">>

LOWERCASE ==
    <<"a", "b", "c", "d", "e", "f", "g", "h", "i", "j", "k", "l", "m",
      "n", "o", "p", "q", "r", "s", "t", "u", "v", "w", "x", "y", "z">>

\* str.lower
Lower(s) ==
    [i \in 1..Len(s) |->
        IF \E k \in 1..26 : UPPERCASE[k] = s[i]
        THEN LOWERCASE[CHOOSE k \in 1..26 : UPPERCASE[k] = s[i]]
        ELSE s[i]]

\* str.endswith(suffix)
EndsWith(s, suffix) ==
    /\ Len(s) >= Len(suffix)
    /\ SubSeq(s, Len(s) - Len(suffix) + 1, Len(s)) = suffix

\* line 55: the suffixes accepted
SUFFIXES ==
    { <<".", "w", "a", "v">>, <<".", "m", "p", "3">>, <<".", "m", "4", "a">> }

\* line 55: file.filename.lower().endswith(('.wav', '.mp3', '.m4a'))
Supported(filename) == \E suf \in SUFFIXES : EndsWith(Lower(filename), suf)

\* TooLarge with >= in place of >
TooLarge_AtCap(size) == size >= MAX_FILE_SIZE

\* line 50: file_size > MAX_FILE_SIZE
TooLarge(size) == size > MAX_FILE_SIZE

\* line 48: the bytes file.read(8192) returns at position p of a file of n bytes
ReadLen(n, p) == IF n - p < CHUNK_SIZE THEN n - p ELSE CHUNK_SIZE

\* lines 32/79: max(result, key=score), the first of the largest
TopEmotion(scores) ==
    scores[CHOOSE i \in 1..Len(scores) :
              /\ \A j \in 1..Len(scores) : scores[j].score <= scores[i].score
              /\ \A j \in 1..(i - 1) : scores[j].score < scores[i].score]

\* lines 36/84: round(score, 3), from ten-thousandths to thousandths
Round3(score) == (score + 5) \div 10

\* lines 81-85
MoodResponse(t, top) ==
    [input_text |-> t, mood |-> top.label, confidence |-> Round3(top.score)]

NoResult == [kind |-> "none", value |-> [error |-> ""]]

Return(v) == [kind |-> "return", value |-> v]

Raise(exc) == [kind |-> "raise", value |-> [exception |-> exc]]

\* lines 90-93: os.unlink(tmp_path) inside try/except: an unbound tmp_path
\* raises a NameError that the bare except swallows
Unlink(file, path) ==
    IF path = "bound" /\ file = "exists" THEN "removed" ELSE file

\* the locals of analyze_audio before it runs
AudioLocals ==
    /\ pos = 0
    /\ file_size = 0
    /\ contents = 0
    /\ tmp_file = "none"
    /\ tmp_path = "unbound"
    /\ text = ""
    /\ calls = {}
    /\ failure = "none"
    /\ pending = NoResult
    /\ result = NoResult

\* an /analyze-audio request arrives
AudioRequest ==
    /\ apc = "read"
    /\ upload \in [size : UploadSizes, filename : Filenames]
    /\ AudioLocals

\* no /analyze-audio request
AudioIdle ==
    /\ apc = "idle"
    /\ upload = [size |-> 0, filename |-> <<>>]
    /\ AudioLocals

\* lines 48-52: one pass of the while loop
ReadChunk ==
    /\ apc = "read"
    /\ LET chunk == ReadLen(upload.size, pos)
       IN  IF chunk = 0
           THEN /\ apc' = "type"
                /\ UNCHANGED <<pos, file_size, contents, result>>
           ELSE /\ pos' = pos + chunk
                /\ file_size' = file_size + chunk
                /\ IF TooLarge(file_size + chunk)
                   THEN /\ result' = Return([error |-> "File size too large. Maximum size is 10MB"])
                        /\ apc' = "done"
                        /\ UNCHANGED contents
                   ELSE /\ contents' = contents + chunk
                        /\ apc' = "read"
                        /\ UNCHANGED result
    /\ UNCHANGED <<pvars, upload, tmp_file, tmp_path, text, calls, failure, pending>>

\* lines 55-56: the file type check
CheckType ==
    /\ apc = "type"
    /\ IF ~Supported(upload.filename)
       THEN /\ result' = Return([error |-> "Unsupported file format. Please upload WAV, MP3, or M4A file"])
            /\ apc' = "done"
       ELSE /\ apc' = "create"
            /\ UNCHANGED result
    /\ UNCHANGED <<pvars, upload, pos, file_size, contents, tmp_file, tmp_path,
                   text, calls, failure, pending>>

\* line 60: tempfile.NamedTemporaryFile(delete=False, suffix=".wav")
CreateTemp ==
    /\ apc = "create"
    /\ calls' = calls \cup {"NamedTemporaryFile"}
    /\ \E ok \in BOOLEAN :
          IF ok
          THEN /\ tmp_file' = "exists"
               /\ apc' = "write"
               /\ UNCHANGED <<failure, pending>>
          ELSE /\ failure' = "NamedTemporaryFile"
               /\ pending' = Raise("OSError")
               /\ apc' = "finally"
               /\ UNCHANGED tmp_file
    /\ UNCHANGED <<pvars, upload, pos, file_size, contents, tmp_path, text, result>>

\* lines 60-62: the body of the with block and its exit. The write can fail
\* before tmp_path is assigned; closing the file (the with exit, which keeps
\* the file: delete=False) can fail after. Only a write of some bytes fails.
WriteTemp ==
    /\ apc = "write"
    /\ \E outcome \in {"written", "write fails", "close fails"} :
          /\ outcome # "written" => contents > 0
          /\ tmp_path' = IF outcome = "write fails" THEN tmp_path ELSE "bound"
          /\ IF outcome = "written"
             THEN /\ apc' = "open"
                  /\ UNCHANGED <<failure, pending>>
             ELSE /\ failure' = "write"
                  /\ pending' = Raise("OSError")
                  /\ apc' = "finally"
    /\ UNCHANGED <<pvars, upload, pos, file_size, contents, tmp_file, text, calls,
                   result>>

\* lines 65-69: sr.AudioFile(tmp_path) is opened, the noise adjusted and the
\* audio recorded; a file it cannot decode raises
OpenAudio ==
    /\ apc = "open"
    /\ calls' = calls \cup {"AudioFile"}
    /\ \E ok \in BOOLEAN :
          IF ok
          THEN /\ apc' = "recognize"
               /\ UNCHANGED <<failure, pending>>
          ELSE /\ failure' = "AudioFile"
               /\ pending' = Raise("ValueError")
               /\ apc' = "finally"
    /\ UNCHANGED <<pvars, upload, pos, file_size, contents, tmp_file, tmp_path,
                   text, result>>

\* lines 70-75: recognizer.recognize_google(audio_data) and its two handlers
Recognize ==
    /\ apc = "recognize"
    /\ calls' = calls \cup {"recognize_google"}
    /\ \E outcome \in {"text", "UnknownValueError", "RequestError"} :
          CASE outcome = "text" ->
                 /\ text' = RECOGNIZED
                 /\ apc' = "classify"
                 /\ UNCHANGED <<failure, pending>>
            [] outcome = "UnknownValueError" ->
                 /\ failure' = outcome
                 /\ pending' = Return([error |-> "Could not understand audio"])
                 /\ apc' = "finally"
                 /\ UNCHANGED text
            [] outcome = "RequestError" ->
                 /\ failure' = outcome
                 /\ pending' = Return([error |-> "Speech recognition service failed"])
                 /\ apc' = "finally"
                 /\ UNCHANGED text
    /\ UNCHANGED <<pvars, upload, pos, file_size, contents, tmp_file, tmp_path,
                   result>>

\* lines 78-85: the classifier call and the answer
Classify ==
    /\ apc = "classify"
    /\ calls' = calls \cup {"emotion_model"}
    /\ \E ok \in BOOLEAN :
          IF ok
          THEN /\ \E scores \in ClassifierOutputs :
                     pending' = Return(MoodResponse(text, TopEmotion(scores)))
               /\ UNCHANGED failure
          ELSE /\ failure' = "emotion_model"
               /\ pending' = Raise("RuntimeError")
    /\ apc' = "finally"
    /\ UNCHANGED <<pvars, upload, pos, file_size, contents, tmp_file, tmp_path,
                   text, result>>

\* lines 87-93: the finally block, then the return or the exception goes out
Finally ==
    /\ apc = "finally"
    /\ calls' = calls \cup {"unlink"}
    /\ tmp_file' = Unlink(tmp_file, tmp_path)
    /\ result' = pending
    /\ apc' = "done"
    /\ UNCHANGED <<pvars, upload, pos, file_size, contents, tmp_path, text,
                   failure, pending>>

AudioNext ==
    \/ ReadChunk
    \/ CheckType
    \/ CreateTemp
    \/ WriteTemp
    \/ OpenAudio
    \/ Recognize
    \/ Classify
    \/ Finally

-----------------------------------------------------------------------------
(* The two specifications: one /playlist request, one /analyze-audio        *)
(* request.                                                                 *)

Init == PlaylistRequest /\ AudioIdle

Next == PlaylistNext

Spec == Init /\ [][Next]_vars

AudioInit == AudioRequest /\ PlaylistIdle

SpecAudio == AudioInit /\ [][AudioNext]_vars

-----------------------------------------------------------------------------
(* Properties of get_playlist.                                              *)

\* the decoded body holds a list under 'data'
HasDataList(x) ==
    /\ x.t = "obj"
    /\ "data" \in DOMAIN x.v
    /\ x.v["data"].t = "arr"

\* a candidate's field, None when the candidate has no such field
Field(c, name) == IF name \in DOMAIN c.v THEN c.v[name] ELSE None

\* a candidate's preview is present: neither missing, null nor empty
HasPreview(c) == Field(c, "preview") \notin {None, Str(<<>>)}

\* the indices the reference accepts among the first n candidates: a candidate
\* with a preview whose id no earlier accepted candidate has
RECURSIVE RefAccepted(_, _)
RefAccepted(cands, n) ==
    IF n = 0 THEN <<>>
    ELSE LET before == RefAccepted(cands, n - 1)
         IN  IF /\ HasPreview(cands[n])
                /\ \A j \in 1..Len(before) :
                       Field(cands[before[j]], "id") # Field(cands[n], "id")
             THEN Append(before, n)
             ELSE before

\* the entry of a candidate: its title, its artist's name, its preview
RefEntry(c) ==
    [title       |-> Field(c, "title"),
     artist      |-> IF "artist" \in DOMAIN c.v /\ "name" \in DOMAIN c.v["artist"].v
                     THEN c.v["artist"].v["name"] ELSE None,
     preview_url |-> Field(c, "preview")]

\* the reference playlist: the first `target` accepted candidates, in order
Reference(cands, target) ==
    LET acc == RefAccepted(cands, Len(cands))
        n   == IF Len(acc) < target THEN Len(acc) ELSE target
    IN  [i \in 1..n |-> RefEntry(cands[acc[i]])]

\* C1: the playlist the filter loop hands over, and the playlist a 200 answer
\* carries, is the reference playlist of the candidate list: the first
\* TARGET_SONGS candidates, in input order, that have a preview and an id no
\* earlier accepted candidate has, each mapped to {title, artist, preview_url}.
C1_FilterEqualsReference ==
    /\ pc = "after" => filtered_playlist = Reference(songs, TARGET_SONGS)
    /\ (pc = "done" /\ response.status = 200)
          => response.body = Reference(songs, TARGET_SONGS)

\* a 200 answer where a candidate rejected for its null preview did not block
\* a later candidate of the same id
C1_Witness ==
    /\ pc = "done"
    /\ response.status = 200
    /\ Len(songs) >= 3
    /\ Field(songs[1], "preview") = Null
    /\ Field(songs[1], "id") = Num(1)
    /\ accepted = <<2, 3>>
    /\ Field(songs[3], "id") = Num(1)

\* C2: the accepted count never exceeds TARGET_SONGS, in the loop and in the
\* answer; once it reaches TARGET_SONGS the loop is over and the last
\* candidate taken from the list is the one accepted last.
C2_NeverMoreThanTarget ==
    /\ Len(filtered_playlist) <= TARGET_SONGS
    /\ response.status = 200 => Len(response.body) <= TARGET_SONGS
    /\ Len(filtered_playlist) = TARGET_SONGS
          => /\ pc \in {"after", "done"}
             /\ idx = accepted[TARGET_SONGS]

\* a 200 answer of TARGET_SONGS entries with a candidate left uninspected
C2_Witness ==
    /\ pc = "done"
    /\ response.status = 200
    /\ Len(response.body) = TARGET_SONGS
    /\ idx < Len(songs)

\* C3: the accepted candidates have pairwise distinct ids (a missing id
\* counting as an id), the seen ids are exactly their ids, and there are as
\* many seen ids as playlist entries.
C3_NoDuplicateIds ==
    /\ \A i, j \in 1..Len(accepted) :
          i # j => Field(songs[accepted[i]], "id") # Field(songs[accepted[j]], "id")
    /\ seen_track_ids = {Field(songs[accepted[i]], "id") : i \in 1..Len(accepted)}
    /\ Cardinality(seen_track_ids) = Len(filtered_playlist)
    /\ Len(accepted) = Len(filtered_playlist)

\* a 200 answer for a list with two playable candidates without an id, of
\* which only the first was accepted
C3_Witness ==
    /\ pc = "done"
    /\ response.status = 200
    /\ \E i, j \in 1..Len(songs) :
          /\ i < j
          /\ "id" \notin DOMAIN songs[i].v
          /\ "id" \notin DOMAIN songs[j].v
          /\ HasPreview(songs[i])
          /\ HasPreview(songs[j])
          /\ \E a \in 1..Len(accepted) : accepted[a] = i
          /\ \A a \in 1..Len(accepted) : accepted[a] # j
    /\ Len(accepted) >= 2

\* C4: every entry of the playlist, and of a 200 answer, has a preview_url
\* that is neither null nor the empty string.
C4_EveryEntryHasPreview ==
    /\ \A i \in 1..Len(filtered_playlist) :
          filtered_playlist[i].preview_url \notin {Null, Str(<<>>)}
    /\ response.status = 200
          => \A i \in 1..Len(response.body) :
                 response.body[i].preview_url \notin {Null, Str(<<>>)}

\* a 200 answer for a list that held a candidate with an empty preview and a
\* candidate with a missing or null preview
C4_Witness ==
    /\ pc = "done"
    /\ response.status = 200
    /\ \E i \in 1..Len(songs) : Field(songs[i], "preview") = Str(<<>>)
    /\ \E i \in 1..Len(songs) : Field(songs[i], "preview") = Null

\* C5 as stated: the term sent is the default when q is absent or empty, and
\* the given q otherwise.
C5_DefaultWhenAbsentOrEmpty ==
    pc # "start"
      => params.q = IF "q" \notin DOMAIN args \/ args.q = ""
                    THEN DEFAULT_QUERY ELSE args.q

\* C5, amended: the term sent is the default only when q is absent; a q that
\* is present is sent as given, the empty string included.
C5_DefaultOnlyWhenAbsent ==
    pc # "start"
      => /\ "q" \notin DOMAIN args => params.q = "lofi"
         /\ "q" \in DOMAIN args => params.q = args.q
         /\ query = params.q

\* a request with an empty q, sent on as the empty term
C5_Witness ==
    /\ pc = "done"
    /\ "q" \in DOMAIN args
    /\ args.q = ""
    /\ params.q = ""

\* C6: a decoded body without a list under 'data' is answered 404 with an
\* {error, message} body, and no candidate is taken.
C6_MalformedIs404 ==
    (pc = "done" /\ response.status # 503 /\ ~HasDataList(data))
      => /\ response.status = 404
         /\ DOMAIN response.body = {"error", "message"}
         /\ idx = 0

\* the candidate list is one the loop can walk: objects whose artist, when
\* present, is an object and whose id is a scalar
WellFormed(cands) ==
    \A i \in 1..Len(cands) :
        /\ cands[i].t = "obj"
        /\ "artist" \in DOMAIN cands[i].v => cands[i].v["artist"].t = "obj"
        /\ Field(cands[i], "id").t \in {"null", "num", "str"}

\* C7: after a well-formed candidate list the answer is 404 with an
\* {error, message} body exactly when no candidate was accepted, and is
\* otherwise 200 with the accepted list, which is not empty.
C7_NoQualifyingIffEmpty ==
    (pc = "done" /\ HasDataList(data) /\ WellFormed(data.v["data"].v))
      => /\ response.status \in {200, 404}
         /\ response.status = 404 <=> Len(accepted) = 0
         /\ response.status = 404 => DOMAIN response.body = {"error", "message"}
         /\ response.status = 200
               => /\ response.body = filtered_playlist
                  /\ Len(response.body) >= 1
                  /\ Len(response.body) = Len(accepted)

\* a 200 answer shorter than the target: the list ran out first
C7_Witness ==
    /\ pc = "done"
    /\ HasDataList(data)
    /\ WellFormed(songs)
    /\ response.status = 200
    /\ Len(response.body) < TARGET_SONGS
    /\ idx = Len(songs)
    /\ Len(songs) > Len(response.body)

-----------------------------------------------------------------------------
(* Properties of analyze_audio.                                             *)

TooLargeAnswer == Return([error |-> "File size too large. Maximum size is 10MB"])

\* C8: the buffered bytes never exceed the 10 MiB cap; once the bytes counted
\* exceed it the handler is done with the file-too-large answer, only the
\* offending chunk was read beyond the buffer and it was not appended, and no
\* temporary file exists and no collaborator was called; an upload of at most
\* 10 MiB is never answered file-too-large, and a larger one always is.
C8_OversizeRejectedAtOnce ==
    /\ contents <= 10485760
    /\ pos = file_size
    /\ file_size > 10485760
          => /\ apc = "done"
             /\ result = TooLargeAnswer
             /\ file_size - contents <= CHUNK_SIZE
             /\ contents = 10485760
             /\ tmp_file = "none"
             /\ text = ""
             /\ calls = {}
    /\ file_size <= 10485760 => contents = file_size
    /\ (apc = "done" /\ upload.size <= 10485760) => result # TooLargeAnswer
    /\ (apc = "done" /\ upload.size > 10485760) => result = TooLargeAnswer

\* an upload two chunks over the cap, rejected with its last chunk unread
C8_Witness ==
    /\ apc = "done"
    /\ upload.size = 10485760 + 8192 + 1
    /\ result = TooLargeAnswer
    /\ pos < upload.size
    /\ contents < file_size

\* C9: when the handler has finished, no temporary file it created is left.
C9_TempFileAlwaysRemoved ==
    apc = "done" => tmp_file # "exists"

\* the calls of the external collaborators: the audio decoder, the speech
\* recognizer, the classifier
ADAPTER_FAILURES == {"AudioFile", "UnknownValueError", "RequestError", "emotion_model"}

\* C10: a failed call of the audio decoder, the recognizer or the classifier
\* never leaves the handler as an exception: it is answered with an {error}
\* payload; and no mood is answered without a transcription.
C10_FailuresAnsweredAsErrors ==
    apc = "done"
      => /\ failure \in ADAPTER_FAILURES
               => /\ result.kind = "return"
                  /\ DOMAIN result.value = {"error"}
         /\ text = "" => "mood" \notin DOMAIN result.value

=============================================================================
